---- MODULE Spec2Model ----
(***************************************************************************)
(* Blink Tac Toe (app/page.tsx): the game-state machine of the BlinkTacToe *)
(* component.  The state is the component's useState cells plus the number *)
(* of ageEmojis timers that setTimeout has scheduled and that have not     *)
(* fired yet.  One action per event the browser can deliver: a click on a  *)
(* board cell, the firing of one aging timer, a click on "New Game".       *)
(* Every action includes the re-render it causes and the outcome-check     *)
(* effect (useEffect, lines 180-192) that runs after that render: an event *)
(* handler, its render and its effects are taken as one atomic step.       *)
(* The audio cue (playSound) returns normally except under SpecAudio.      *)
(*                                                                         *)
(* A cell is modelled by its owner and its turnsLeft; the glyph and the id *)
(* of a cell are read by the rendering only and are left out.              *)
(***************************************************************************)
EXTENDS Integers, Sequences, FiniteSets, TLC

\* ---------------------------------------------------------------- constants
BLINK_DURATION == 3

MAX_EMOJIS_PER_PLAYER == 6

\* Bounds of the model.  MaxPending: the most aging timers pending at once
\* under Spec (setTimeout itself has no limit).  NumCells: how many of the 9
\* cells are clicked under Spec and SpecSync, taken from ClickOrder.
\* MaxClicks: the length of the click sequences of SpecSync.
MaxPending == 3

NumCells == 5

MaxClicks == 5

Indices == 0..8

ClickOrder == <<0, 1, 2, 4, 8, 6, 3, 5, 7>>

Clickable == {ClickOrder[k] : k \in 1..(IF NumCells < 9 THEN NumCells ELSE 9)}

Players == {1, 2}

\* null in the source: an empty slot of the board.
NoCell == [player |-> 0, turnsLeft |-> 0]

\* Array(9).fill(null)
EmptyBoard == [i \in Indices |-> NoCell]

VARIABLES
    board,          \* (CellValue | null)[9]
    currentPlayer,  \* 1 | 2
    gameState,      \* "playing" | "won" | "draw"
    winner,         \* 1 | 2 | null (0)
    emojiCounts,    \* { 1: n, 2: n }
    gameStats,      \* { moves, vanishedEmojis }
    pendingAging,   \* ageEmojis timers scheduled by setTimeout, not yet fired
    lastEvent,      \* the last event delivered: "init", "placed", "rejected",
                    \* "aged", "reset", "cueFailed" or "sound" (never read
                    \* by the handlers)
    clicks,         \* SpecSync: the cell indices clicked so far
    sync,           \* SpecSync: the game fed the same clicks, each aging
                    \* pass run at once instead of by a timer
    soundEnabled,   \* boolean (toggled under SpecAudio only)
    stalePending    \* SpecReset: the pending timers that were scheduled
                    \* before the last resetGame

core == <<board, currentPlayer, gameState, winner, emojiCounts, gameStats,
          pendingAging>>

vars == <<board, currentPlayer, gameState, winner, emojiCounts, gameStats,
          pendingAging, lastEvent, clicks, sync, soundEnabled, stalePending>>

\* ------------------------------------------------------------ pure helpers
\* The 8 lines of checkWinner, in the source's enumeration order.
lines == << <<0, 1, 2>>, <<3, 4, 5>>, <<6, 7, 8>>,
            <<0, 3, 6>>, <<1, 4, 7>>, <<2, 5, 8>>,
            <<0, 4, 8>>, <<2, 4, 6>> >>

\* The condition of checkWinner's loop on line k of b.
LineOwned(b, k) ==
    LET a == lines[k][1]
        bb == lines[k][2]
        c == lines[k][3]
    IN  /\ b[a] # NoCell
        /\ b[bb] # NoCell
        /\ b[c] # NoCell
        /\ b[a].player = b[bb].player
        /\ b[bb].player = b[c].player

\* Mutation of checkWinner: only the three rows are tested.
checkWinnerRowsOnly(b) ==
    IF \E k \in 1..3 : LineOwned(b, k)
    THEN LET first == CHOOSE k \in 1..3 :
                        /\ LineOwned(b, k)
                        /\ \A j \in 1..(k - 1) : ~LineOwned(b, j)
         IN  b[lines[first][1]].player
    ELSE 0

\* Mutation of checkWinner: the last line (the diagonal 2, 4, 6) is missing.
checkWinnerNoAntiDiagonal(b) ==
    IF \E k \in 1..7 : LineOwned(b, k)
    THEN LET first == CHOOSE k \in 1..7 :
                        /\ LineOwned(b, k)
                        /\ \A j \in 1..(k - 1) : ~LineOwned(b, j)
         IN  b[lines[first][1]].player
    ELSE 0

\* checkWinner(board): the owner of the first owned line, or null (0).
checkWinner(b) ==
    IF \E k \in 1..8 : LineOwned(b, k)
    THEN LET first == CHOOSE k \in 1..8 :
                        /\ LineOwned(b, k)
                        /\ \A j \in 1..(k - 1) : ~LineOwned(b, j)
         IN  b[lines[first][1]].player
    ELSE 0

\* newBoard.every((cell) => cell !== null)
BoardFull(b) == \A i \in Indices : b[i] # NoCell

\* board.every((cell) => cell === null)
BoardEmpty(b) == \A i \in Indices : b[i] = NoCell

\* The first map of ageEmojis: every cell with turnsLeft > 0 loses one turn.
Decremented(b) ==
    [i \in Indices |->
        IF b[i] # NoCell /\ b[i].turnsLeft > 0
        THEN [b[i] EXCEPT !.turnsLeft = b[i].turnsLeft - 1]
        ELSE b[i]]

\* Mutation of VanishedCount: the cells at 0 are counted before the decrement.
VanishedCountBeforeDecrement(b) ==
    Cardinality({i \in Indices : b[i] # NoCell /\ b[i].turnsLeft = 0})

\* vanishedCount of ageEmojis: the cells of the decremented board at 0.
VanishedCount(b) ==
    Cardinality({i \in Indices :
        Decremented(b)[i] # NoCell /\ Decremented(b)[i].turnsLeft = 0 /\ b[i] # NoCell})

\* Mutation of Aged: the cells at 0 are not removed.
AgedKeepsExpired(b) == Decremented(b)

\* Mutation of Aged: a cell is removed one pass early, when it reaches 1.
AgedEarly(b) ==
    [i \in Indices |->
        IF Decremented(b)[i] # NoCell /\ Decremented(b)[i].turnsLeft <= 1
        THEN NoCell
        ELSE Decremented(b)[i]]

\* The board ageEmojis returns: the decremented board without its cells at 0.
Aged(b) ==
    [i \in Indices |->
        IF Decremented(b)[i] # NoCell /\ Decremented(b)[i].turnsLeft = 0
        THEN NoCell
        ELSE Decremented(b)[i]]

\* ------------------------------------------------- the handlers, on a game
\* A game is the record of the component's state cells.
InitialGame ==
    [board |-> EmptyBoard,
     currentPlayer |-> 1,
     gameState |-> "playing",
     winner |-> 0,
     emojiCounts |-> [p \in Players |-> 0],
     gameStats |-> [moves |-> 0, vanishedEmojis |-> 0]]

\* Mutation of OutcomeEffect: the draw branch without its moves > 0 test.
OutcomeEffectNoMoves(g) ==
    IF g.gameState = "playing"
    THEN IF checkWinner(g.board) # 0
         THEN [g EXCEPT !.winner = checkWinner(g.board), !.gameState = "won"]
         ELSE IF BoardEmpty(g.board)
              THEN [g EXCEPT !.gameState = "draw"]
              ELSE g
    ELSE g

\* The outcome-check effect (useEffect) on a rendered game.
OutcomeEffect(g) ==
    IF g.gameState = "playing"
    THEN IF checkWinner(g.board) # 0
         THEN [g EXCEPT !.winner = checkWinner(g.board), !.gameState = "won"]
         ELSE IF BoardEmpty(g.board) /\ g.gameStats.moves > 0
              THEN [g EXCEPT !.gameState = "draw"]
              ELSE g
    ELSE g

\* Mutation of ClickRejected: the placement-limit test is missing.
ClickRejectedNoLimit(g, index) ==
    \/ g.board[index] # NoCell
    \/ g.gameState # "playing"

\* Mutation of ClickRejected: the gameState test is missing.
ClickRejectedNoState(g, index) ==
    \/ g.board[index] # NoCell
    \/ g.emojiCounts[g.currentPlayer] >= MAX_EMOJIS_PER_PLAYER

\* The early return of handleCellClick.
ClickRejected(g, index) ==
    \/ g.board[index] # NoCell
    \/ g.gameState # "playing"
    \/ g.emojiCounts[g.currentPlayer] >= MAX_EMOJIS_PER_PLAYER

\* Mutation of NewCell: the owner is player 1 whoever moves.
NewCellPlayerOne(g) == [player |-> 1, turnsLeft |-> BLINK_DURATION]

\* newCell of handleCellClick.
NewCell(g) == [player |-> g.currentPlayer, turnsLeft |-> BLINK_DURATION]

\* newBoard of handleCellClick.
NewBoard(g, index) == [g.board EXCEPT ![index] = NewCell(g)]

\* Mutation of PlaceCell: the draw test comes before the win test.
PlaceCellDrawFirst(g, index) ==
    LET newBoard == [g.board EXCEPT
                        ![index] = [player |-> g.currentPlayer,
                                    turnsLeft |-> BLINK_DURATION]]
        placed == [g EXCEPT
                      !.board = newBoard,
                      !.emojiCounts[g.currentPlayer] = @ + 1,
                      !.gameStats.moves = @ + 1]
    IN  IF BoardFull(newBoard)
        THEN [placed EXCEPT !.gameState = "draw"]
        ELSE IF checkWinner(newBoard) # 0
             THEN [placed EXCEPT !.winner = checkWinner(newBoard), !.gameState = "won"]
             ELSE [placed EXCEPT
                      !.currentPlayer = IF g.currentPlayer = 1 THEN 2 ELSE 1]

\* The state updates of an accepted handleCellClick(index), as rendered.
PlaceCell(g, index) ==
    LET newBoard == NewBoard(g, index)
        placed == [g EXCEPT
                      !.board = newBoard,
                      !.emojiCounts[g.currentPlayer] = @ + 1,
                      !.gameStats.moves = @ + 1]
    IN  IF checkWinner(newBoard) # 0
        THEN [placed EXCEPT !.winner = checkWinner(newBoard), !.gameState = "won"]
        ELSE IF BoardFull(newBoard)
             THEN [placed EXCEPT !.gameState = "draw"]
             ELSE [placed EXCEPT
                      !.currentPlayer = IF g.currentPlayer = 1 THEN 2 ELSE 1]

\* Mutation of SchedulesAging: the timer is set before the outcome tests.
SchedulesAgingAlways(g, index) == ~ClickRejected(g, index)

\* Whether an accepted handleCellClick(index) reaches setTimeout(ageEmojis, 500).
SchedulesAging(g, index) ==
    /\ ~ClickRejected(g, index)
    /\ checkWinner(NewBoard(g, index)) = 0
    /\ ~BoardFull(NewBoard(g, index))

\* Mutation of handleCellClick: the outcome is not tested by the handler
\* and the effect does not run after its render (a win waits for the next
\* aging pass).
handleCellClickNoOutcome(g, index) ==
    IF ClickRejected(g, index)
    THEN g
    ELSE [g EXCEPT
             !.board = NewBoard(g, index),
             !.emojiCounts[g.currentPlayer] = @ + 1,
             !.gameStats.moves = @ + 1,
             !.currentPlayer = IF g.currentPlayer = 1 THEN 2 ELSE 1]

\* handleCellClick(index) with the render and effect that follow it.
handleCellClick(g, index) ==
    IF ClickRejected(g, index) THEN g ELSE OutcomeEffect(PlaceCell(g, index))

\* The state updates of an accepted handleCellClick(index) whose
\* playSound("place") (line 146) throws: the setters of lines 143-145 have
\* run, the rest of the handler (lines 148-166) has not.
PlaceCellCueFails(g, index) ==
    [g EXCEPT
        !.board = NewBoard(g, index),
        !.emojiCounts[g.currentPlayer] = @ + 1,
        !.gameStats.moves = @ + 1]

\* handleCellClick(index) whose place cue throws, with the render and effect
\* that follow it (a cue the effect plays is a call of its own and returns).
handleCellClickCueFails(g, index) ==
    IF ClickRejected(g, index) THEN g ELSE OutcomeEffect(PlaceCellCueFails(g, index))

\* ageEmojis with the render and effect that follow it.
ageEmojis(g) ==
    OutcomeEffect([g EXCEPT
        !.board = Aged(g.board),
        !.gameStats.vanishedEmojis = @ + VanishedCount(g.board)])

\* resetGame with the render and effect that follow it.
resetGame(g) == OutcomeEffect(InitialGame)

\* ------------------------------------------------------------------- state
\* The component's state as a game record, and its assignment.
Cur ==
    [board |-> board,
     currentPlayer |-> currentPlayer,
     gameState |-> gameState,
     winner |-> winner,
     emojiCounts |-> emojiCounts,
     gameStats |-> gameStats]

Becomes(g) ==
    /\ board' = g.board
    /\ currentPlayer' = g.currentPlayer
    /\ gameState' = g.gameState
    /\ winner' = g.winner
    /\ emojiCounts' = g.emojiCounts
    /\ gameStats' = g.gameStats

Init ==
    /\ board = EmptyBoard
    /\ currentPlayer = 1
    /\ gameState = "playing"
    /\ winner = 0
    /\ emojiCounts = [p \in Players |-> 0]
    /\ gameStats = [moves |-> 0, vanishedEmojis |-> 0]
    /\ pendingAging = 0
    /\ lastEvent = "init"
    /\ clicks = <<>>
    /\ sync = InitialGame
    /\ soundEnabled = TRUE
    /\ stalePending = 0

\* A click on cell index that handleCellClick ignores.
ClickIgnored(index) ==
    /\ ClickRejected(Cur, index)
    /\ Becomes(handleCellClick(Cur, index))
    /\ UNCHANGED pendingAging
    /\ lastEvent' = "rejected"

\* A click on cell index that places a cell.
ClickPlaced(index) ==
    /\ ~ClickRejected(Cur, index)
    /\ Becomes(handleCellClick(Cur, index))
    /\ pendingAging' = IF SchedulesAging(Cur, index)
                       THEN pendingAging + 1 ELSE pendingAging
    /\ lastEvent' = "placed"

\* One scheduled timer fires.
TimerFired ==
    /\ pendingAging > 0
    /\ pendingAging' = pendingAging - 1
    /\ Becomes(ageEmojis(Cur))
    /\ lastEvent' = "aged"

\* A click on "New Game": the timers already scheduled are not cleared.
NewGame ==
    /\ Becomes(resetGame(Cur))
    /\ UNCHANGED pendingAging
    /\ lastEvent' = "reset"

\* A click on cell index that places a cell and whose place cue throws
\* (playSound builds a new AudioContext on every call, lines 39-41, and does
\* so only while soundEnabled): setTimeout is not reached.
ClickPlacedCueFails(index) ==
    /\ soundEnabled
    /\ ~ClickRejected(Cur, index)
    /\ Becomes(handleCellClickCueFails(Cur, index))
    /\ UNCHANGED pendingAging
    /\ lastEvent' = "cueFailed"

\* A click on the sound button (line 365).
ToggleSound ==
    /\ soundEnabled' = ~soundEnabled
    /\ lastEvent' = "sound"
    /\ UNCHANGED core

\* ------------------------------------------------------------ specification
\* Spec: clicks on the cells of Clickable, timer firings and resets in any
\* order, with at most MaxPending timers pending.
Rejected ==
    \E index \in Clickable :
        ClickIgnored(index) /\ UNCHANGED <<clicks, sync, soundEnabled, stalePending>>

Placed ==
    \E index \in Clickable :
        /\ ClickPlaced(index)
        /\ pendingAging' <= MaxPending
        /\ UNCHANGED <<clicks, sync, soundEnabled, stalePending>>

Fired == TimerFired /\ UNCHANGED <<clicks, sync, soundEnabled, stalePending>>

Reset == NewGame /\ UNCHANGED <<clicks, sync, soundEnabled, stalePending>>

Next == Rejected \/ Placed \/ Fired \/ Reset

Spec == Init /\ [][Next]_vars

\* SpecBurst: clicks on all 9 cells; every game is one burst of clicks that
\* all arrive before the first of its timers fires, and a new game is started
\* only once every timer has fired.
Untouched == \A i \in Indices : board[i] = NoCell \/ board[i].turnsLeft = BLINK_DURATION

BurstRejected ==
    \E index \in Indices :
        Untouched /\ ClickIgnored(index) /\ UNCHANGED <<clicks, sync, soundEnabled, stalePending>>

BurstPlaced ==
    \E index \in Indices :
        Untouched /\ ClickPlaced(index) /\ UNCHANGED <<clicks, sync, soundEnabled, stalePending>>

BurstReset == pendingAging = 0 /\ NewGame /\ UNCHANGED <<clicks, sync, soundEnabled, stalePending>>

NextBurst == BurstRejected \/ BurstPlaced \/ Fired \/ BurstReset

SpecBurst == Init /\ [][NextBurst]_vars

\* SpecSync: one game fed a sequence of at most MaxClicks clicks on the cells
\* of Clickable.  The component handles each click and its timers fire in any
\* order; the game sync handles the same click and, when the click schedules
\* an aging pass, runs ageEmojis at once.
SyncTurn(g, index) ==
    IF SchedulesAging(g, index)
    THEN ageEmojis(handleCellClick(g, index))
    ELSE handleCellClick(g, index)

SyncRejected ==
    \E index \in Clickable :
        /\ Len(clicks) < MaxClicks
        /\ ClickIgnored(index)
        /\ clicks' = Append(clicks, index)
        /\ sync' = SyncTurn(sync, index)
        /\ UNCHANGED <<soundEnabled, stalePending>>

SyncPlaced ==
    \E index \in Clickable :
        /\ Len(clicks) < MaxClicks
        /\ ClickPlaced(index)
        /\ clicks' = Append(clicks, index)
        /\ sync' = SyncTurn(sync, index)
        /\ UNCHANGED <<soundEnabled, stalePending>>

NextSync == SyncRejected \/ SyncPlaced \/ Fired

SpecSync == Init /\ [][NextSync]_vars

\* SpecAudio: turn-by-turn play (a cell is clicked only once every pending
\* timer has fired) on the cells of Clickable, with the sound button and with
\* place cues that may throw.
AudioRejected ==
    \E index \in Clickable :
        /\ pendingAging = 0
        /\ ClickIgnored(index)
        /\ UNCHANGED <<clicks, sync, soundEnabled, stalePending>>

AudioPlaced ==
    \E index \in Clickable :
        /\ pendingAging = 0
        /\ ClickPlaced(index)
        /\ UNCHANGED <<clicks, sync, soundEnabled, stalePending>>

AudioCueFails ==
    \E index \in Clickable :
        /\ pendingAging = 0
        /\ ClickPlacedCueFails(index)
        /\ UNCHANGED <<clicks, sync, soundEnabled, stalePending>>

AudioToggle == ToggleSound /\ UNCHANGED <<clicks, sync, stalePending>>

NextAudio ==
    AudioRejected \/ AudioPlaced \/ AudioCueFails \/ AudioToggle \/ Fired \/ Reset

SpecAudio == Init /\ [][NextAudio]_vars

\* SpecReset: Spec with the timers that a resetGame leaves behind told apart.
\* Timers of equal delay fire in the order they were set, so while
\* stalePending > 0 the timer that fires was set before the last resetGame.
ResetFired ==
    /\ TimerFired
    /\ stalePending' = IF stalePending > 0 THEN stalePending - 1 ELSE 0
    /\ UNCHANGED <<clicks, sync, soundEnabled>>

ResetNewGame ==
    /\ NewGame
    /\ stalePending' = pendingAging
    /\ UNCHANGED <<clicks, sync, soundEnabled>>

NextReset == Rejected \/ Placed \/ ResetFired \/ ResetNewGame

SpecReset == Init /\ [][NextReset]_vars

\* SpecWinner: checkWinner on every board.  The board starts as any of the
\* 3^9 assignments of empty, player 1 and player 2 to the cells of the 3x3
\* grid (row-major, grid-cols-3) and is turned or mirrored; the outcome check
\* evaluates it.
WinnerBoards ==
    [Indices -> {NoCell} \cup [player : Players, turnsLeft : {BLINK_DURATION}]]

\* b turned a quarter clockwise: the cell of row r, column c comes from
\* row 2 - c, column r.
Rot90(b) == [i \in Indices |-> b[3 * (2 - (i % 3)) + (i \div 3)]]

\* b mirrored left to right: the cell of row r, column c comes from
\* row r, column 2 - c.
Mirror(b) == [i \in Indices |-> b[3 * (i \div 3) + (2 - (i % 3))]]

InitWinner ==
    /\ board \in WinnerBoards
    /\ currentPlayer = 1
    /\ gameState = "playing"
    /\ winner = 0
    /\ emojiCounts = [p \in Players |-> 0]
    /\ gameStats = [moves |-> 0, vanishedEmojis |-> 0]
    /\ pendingAging = 0
    /\ lastEvent = "init"
    /\ clicks = <<>>
    /\ sync = InitialGame
    /\ soundEnabled = TRUE
    /\ stalePending = 0

Turned ==
    /\ board' = Rot90(board)
    /\ lastEvent' = "turned"
    /\ UNCHANGED <<currentPlayer, gameState, winner, emojiCounts, gameStats,
                   pendingAging, clicks, sync, soundEnabled, stalePending>>

Mirrored ==
    /\ board' = Mirror(board)
    /\ lastEvent' = "mirrored"
    /\ UNCHANGED <<currentPlayer, gameState, winner, emojiCounts, gameStats,
                   pendingAging, clicks, sync, soundEnabled, stalePending>>

\* The outcome check on the board as it stands.
Evaluated ==
    /\ Becomes(OutcomeEffect(Cur))
    /\ lastEvent' = "evaluated"
    /\ UNCHANGED <<pendingAging, clicks, sync, soundEnabled, stalePending>>

NextWinner == Turned \/ Mirrored \/ Evaluated

SpecWinner == InitWinner /\ [][NextWinner]_vars

\* ------------------------------------------------------------------ claims
\* The cells of b that player p owns.
Owned(b, p) == {i \in Indices : b[i] # NoCell /\ b[i].player = p}

\* The outcome of a game: Won(1), Won(2), Draw or still Playing.
Outcome(g) ==
    IF g.gameState = "won" THEN <<"won", g.winner>> ELSE <<g.gameState, 0>>

\* The three cases in which a move attempt on index is to be rejected.
RejectCase(index) ==
    \/ board[index] # NoCell
    \/ gameState # "playing"
    \/ emojiCounts[currentPlayer] = 6

\* C1: a click on an occupied cell, or while gameState is not "playing", or
\* while the active player's placement counter is 6, leaves the board, the
\* counters, the statistics, the current player, gameState and winner as they
\* were and schedules no aging pass.
C1_RejectedClickChangesNothing ==
    [][\A index \in Indices :
          (RejectCase(index) /\ (ClickIgnored(index) \/ ClickPlaced(index)))
              => UNCHANGED core]_vars

\* A click was rejected in a playing game whose active player is at the limit.
C1_Witness ==
    /\ lastEvent = "rejected"
    /\ gameState = "playing"
    /\ emojiCounts[currentPlayer] = 6
    /\ \E index \in Indices : board[index] = NoCell

\* C2: in every reachable state each player owns at most 6 live cells.
C2_LiveCellsAtMostMax ==
    \A p \in Players : Cardinality(Owned(board, p)) <= 6

\* A player owns 5 live cells, the most a game reaches.
C2_Witness ==
    /\ lastEvent = "placed"
    /\ \E p \in Players : Cardinality(Owned(board, p)) = 5

\* C3: once gameState is "won" or "draw", no click places a cell, and neither
\* a click nor an aging pass changes gameState or winner; only resetGame
\* leaves the terminal state.
C3_TerminalAbsorbing ==
    [][(gameState \in {"won", "draw"} /\ lastEvent' # "reset")
          => /\ gameState' = gameState
             /\ winner' = winner
             /\ lastEvent' # "placed"
             /\ (lastEvent' = "rejected" => board' = board)]_vars

\* A click was rejected in a won game.
C3_Witness ==
    /\ gameState = "won"
    /\ lastEvent = "rejected"

\* C4: at most one aging pass is pending at any time, and a click is accepted
\* only when every aging pass scheduled before it has fired.
C4_NoMoveWhileAgingPending ==
    [][/\ pendingAging' <= 1
       /\ (lastEvent' = "placed" => pendingAging = 0)]_vars

\* C5: an aging pass that fires while gameState is "won" or "draw" leaves the
\* board and the vanished-emoji statistic unchanged.
C5_AgingOnlyWhilePlaying ==
    [][(gameState # "playing" /\ lastEvent' = "aged")
          => /\ board' = board
             /\ gameStats'.vanishedEmojis = gameStats.vanishedEmojis]_vars

\* C6: for every click sequence, once every timer has fired the component
\* has the outcome of the game that ran each aging pass at once.
C6_SyncAndDelayedAgree ==
    pendingAging = 0 => Outcome(Cur) = Outcome(sync)

\* C7: with each aging pass run right after its move, the moves 0 (player 1),
\* 8 (player 2), 1 (player 1), a non-blocking x (player 2), 2 (player 1) end
\* with player 1 owning cells 0, 1 and 2 and the game won by player 1.
C7_TopRowScenarioWins ==
    \A x \in {3, 4, 5, 6, 7} :
        clicks = <<0, 8, 1, x, 2>>
            => /\ sync.gameState = "won"
               /\ sync.winner = 1
               /\ {0, 1, 2} \subseteq Owned(sync.board, 1)

\* C8 (as stated): gameState becomes "draw" only with at least one move made,
\* no winning triple and all 9 cells occupied.
C8_DrawOnlyOnFullBoard ==
    [][(gameState # "draw" /\ gameState' = "draw")
          => /\ gameStats'.moves > 0
             /\ checkWinner(board') = 0
             /\ BoardFull(board')]_vars

\* C8 (amended): gameState becomes "draw" only with at least one move made and
\* no winning triple, either on a click that fills all 9 cells or on an aging
\* pass that leaves all 9 cells empty.
C8_DrawOnFullOrEmptyBoard ==
    [][(gameState # "draw" /\ gameState' = "draw")
          => /\ gameStats'.moves > 0
             /\ checkWinner(board') = 0
             /\ \/ lastEvent' = "placed" /\ BoardFull(board')
                \/ lastEvent' = "aged" /\ BoardEmpty(board')]_vars

\* A click has just filled the board and drawn the game.
C8_Witness ==
    /\ gameState = "draw"
    /\ lastEvent = "placed"
    /\ BoardFull(board)

\* C9: an accepted move that completes a line of the mover and leaves no
\* empty cell ends in Won with the mover as winner, never in Draw.
C9_WinBeforeDraw ==
    [][(/\ lastEvent' = "placed"
        /\ BoardFull(board')
        /\ \E k \in 1..8 :
              \A n \in 1..3 : board'[lines[k][n]].player = currentPlayer)
          => /\ gameState' = "won"
             /\ winner' = currentPlayer]_vars

\* A click has just filled the board and won the game.
C9_Witness ==
    /\ gameState = "won"
    /\ lastEvent = "placed"
    /\ BoardFull(board)

\* C10: a cell is placed with lifetime 3; an aging pass takes a cell of
\* lifetime 3 to 2, of lifetime 2 to 1, removes a cell of lifetime 1, and
\* leaves an empty slot empty.
C10_CellLifetime ==
    [][/\ lastEvent' = "placed" =>
            \A i \in Indices :
                (board[i] = NoCell /\ board'[i] # NoCell)
                    => board'[i].turnsLeft = 3
       /\ lastEvent' = "aged" =>
            \A i \in Indices :
                /\ board[i] = NoCell => board'[i] = NoCell
                /\ (board[i] # NoCell /\ board[i].turnsLeft > 1)
                      => board'[i] = [board[i] EXCEPT !.turnsLeft = @ - 1]
                /\ (board[i] # NoCell /\ board[i].turnsLeft = 1)
                      => board'[i] = NoCell]_vars

\* An aging pass has just removed a cell and left cells of lifetime 2 and 1.
C10_Witness ==
    /\ lastEvent = "aged"
    /\ gameStats.vanishedEmojis > 0
    /\ \E i, j \in Indices : board[i].turnsLeft = 2 /\ board[j].turnsLeft = 1

\* C11: every cell on the board has a remaining lifetime within [0, 3]; after
\* an aging pass no cell with lifetime 0 is left on the board.
C11_LifetimeInRange ==
    /\ \A i \in Indices :
          board[i] # NoCell => board[i].turnsLeft \in 0..3
    /\ lastEvent = "aged" =>
          \A i \in Indices : board[i] # NoCell => board[i].turnsLeft # 0

\* An aging pass has just removed a cell and left a cell in its last turn.
C11_Witness ==
    /\ lastEvent = "aged"
    /\ gameStats.vanishedEmojis > 0
    /\ \E i \in Indices : board[i] # NoCell /\ board[i].turnsLeft = 1

\* C12: an accepted move whose place cue fails leaves the board, the counters,
\* the statistics, the current player, gameState, winner and the scheduled
\* aging as the same move leaves them when the cue succeeds.
C12_CueFailureChangesNothing ==
    [][\A index \in Indices :
          ClickPlacedCueFails(index)
              => /\ Becomes(handleCellClick(Cur, index))
                 /\ pendingAging' = IF SchedulesAging(Cur, index)
                                    THEN pendingAging + 1 ELSE pendingAging]_vars

\* The component's state after the step, as a game record.
CurNext ==
    [board |-> board',
     currentPlayer |-> currentPlayer',
     gameState |-> gameState',
     winner |-> winner',
     emojiCounts |-> emojiCounts',
     gameStats |-> gameStats']

\* C13: when the active player of a playing game is blocked by the limit and
\* an aging pass removes one of that player's cells, a click of that player
\* on an empty cell is accepted afterwards.
C13_BlockedPlayerFreedByVanishing ==
    [][(/\ gameState = "playing"
        /\ emojiCounts[currentPlayer] >= 6
        /\ lastEvent' = "aged"
        /\ gameState' = "playing"
        /\ Owned(board', currentPlayer) # Owned(board, currentPlayer))
          => \E index \in Indices :
                board'[index] = NoCell /\ ~ClickRejected(CurNext, index)]_vars

OwnsLine(b, p) ==
    \E k \in 1..8 : \A n \in 1..3 : b[lines[k][n]].player = p

\* C16: in every reachable state at most one player owns a complete line.
C16_OneLineOwner ==
    ~(OwnsLine(board, 1) /\ OwnsLine(board, 2))

\* A click has just won a game in which each player owns at least 3 cells.
C16_Witness ==
    /\ lastEvent = "placed"
    /\ gameState = "won"
    /\ OwnsLine(board, winner)
    /\ \A p \in Players : Cardinality(Owned(board, p)) >= 3

\* C15 (as stated): an aging pass can produce a win that did not exist before
\* it: some board without a winning triple, in a playing game, is won after
\* ageEmojis and the outcome check that follows.  The boards range over every
\* assignment of empty, kept (turnsLeft 2) and expiring (turnsLeft 1) cells
\* of either player, reachable or not: a pass treats every lifetime above 1
\* alike.  No such board exists, so none is reachable either.
AgingCells == {NoCell} \cup [player : Players, turnsLeft : {1, 2}]

C15_AgingCanCreateWin ==
    \E b \in [Indices -> AgingCells] :
        /\ checkWinner(b) = 0
        /\ ageEmojis([Cur EXCEPT !.board = b, !.gameState = "playing"]).gameState = "won"

\* C15 (amended): the outcome check that follows an aging pass never
\* produces a win.  No playing state has a winning triple on its board, and
\* an aging pass that starts in a playing game leaves it playing or, when it
\* empties the board, drawn.
C15_AgingNeverCreatesWin ==
    [][/\ gameState' = "playing" => checkWinner(board') = 0
       /\ (gameState = "playing" /\ lastEvent' = "aged")
              => gameState' \in {"playing", "draw"}]_vars

\* An aging pass has ended a playing game: it removed the last cells.
C15_Witness ==
    /\ lastEvent = "aged"
    /\ gameState = "draw"
    /\ BoardEmpty(board)
    /\ gameStats.vanishedEmojis = gameStats.moves

\* The 8 images of b under the rotations and reflections of the grid:
\* t % 4 quarter turns, then a mirroring when t >= 4.
RECURSIVE TurnedTimes(_, _)
TurnedTimes(b, n) == IF n = 0 THEN b ELSE TurnedTimes(Rot90(b), n - 1)

Image(b, t) == IF t >= 4 THEN Mirror(TurnedTimes(b, t % 4)) ELSE TurnedTimes(b, t)

C18_NoStuckGame ==
    (gameState = "playing" /\ pendingAging = 0)
        => \E index \in Indices : ~ClickRejected(Cur, index)

\* The non-empty cells of b.
Live(b) == {i \in Indices : b[i] # NoCell}

\* C19: in every reachable state gameStats.moves is gameStats.vanishedEmojis
\* plus the number of non-empty cells and is emojiCounts[1] + emojiCounts[2];
\* each aging pass increases vanishedEmojis by the number of cells it removes.
C19_StatsConserved ==
    [][/\ gameStats'.moves = gameStats'.vanishedEmojis + Cardinality(Live(board'))
       /\ gameStats'.moves = emojiCounts'[1] + emojiCounts'[2]
       /\ lastEvent' = "aged"
             => /\ Live(board') \subseteq Live(board)
                /\ gameStats'.vanishedEmojis - gameStats.vanishedEmojis
                       = Cardinality(Live(board) \ Live(board'))]_vars

\* Aging passes have removed cells, the last one has left others on the board.
C19_Witness ==
    /\ lastEvent = "aged"
    /\ gameStats.vanishedEmojis >= 2
    /\ Cardinality(Live(board)) >= 2
    /\ \E i \in Indices : board[i] # NoCell /\ board[i].turnsLeft = 2

\* C20 (as stated): after resetGame all state equals the initial state, and
\* an aging pass scheduled before the reset never changes the board after it.
C20_ResetIsolatesNewGame ==
    [][/\ lastEvent' = "reset" => CurNext = InitialGame
       /\ (lastEvent' = "aged" /\ stalePending > 0) => board' = board]_vars
====
